---- MODULE Spec2Model ----
(***************************************************************************)
(* AxiomLinearEngine (src/logos_dualcore_xvindustrial.py): the five-stage  *)
(* LOGOS DUAL pipeline, its constructor and its public stage methods.      *)
(*                                                                         *)
(* Python values are records [k, m, s]: k is the run-time type ("int",     *)
(* "float", "nan", "inf", "str", "list", "none", "tuple") or, for the      *)
(* outcome of an expression that raised, the exception's class; m is the   *)
(* integer payload and s the characters of a str (the items of a tuple).   *)
(* A finite float is a fixed-point number m / Scale, and the largest       *)
(* finite float is MaxFin / Scale: arithmetic beyond it gives inf, as      *)
(* IEEE-754 doubles do beyond 1.8e308, and an int beyond it has no float.  *)
(* The sign of a float zero is not kept (the code only compares zeros      *)
(* with 0).  Console output (verbose, _log, print) changes no value and is *)
(* left out; strings are kept in ASCII (the subscript digits of the        *)
(* verdict code and the pictographs of the messages are written plainly    *)
(* or dropped).                                                            *)
(***************************************************************************)
EXTENDS Integers, Sequences, FiniteSets, TLC

\* Resolution of the model's finite floats: a float m stands for m / Scale.
Scale == 1000
\* Largest finite float magnitude, in units of 1 / Scale.
MaxFin == 100000000

\* Operands are evaluated once, as the language does (call by value): an
\* operator written  CHOOSE r \in {e(a) : a \in {x}} : TRUE  is e(x) with x
\* evaluated first.

------------------------------------------------------------------------------
(* Python values *)

PyInt(n) == [k |-> "int", m |-> n, s |-> <<>>]
PyFloat(n) == [k |-> "float", m |-> n, s |-> <<>>]
NaN == [k |-> "nan", m |-> 0, s |-> <<>>]
Inf(sign) == [k |-> "inf", m |-> sign, s |-> <<>>]
PyStr(chars) == [k |-> "str", m |-> 0, s |-> chars]
PyList == [k |-> "list", m |-> 0, s |-> <<>>]
PyNone == [k |-> "none", m |-> 0, s |-> <<>>]
PyTuple(items) == [k |-> "tuple", m |-> 0, s |-> items]
Raise(cls) == [k |-> cls, m |-> 0, s |-> <<>>]

ExceptionClasses == {"ValueError", "OverflowError", "ZeroDivisionError", "TypeError"}
IsExc(v) == v.k \in ExceptionClasses
IsFloat(v) == v.k \in {"float", "nan", "inf"}
\* isinstance(v, (int, float))
IsNumber(v) == v.k = "int" \/ IsFloat(v)

Abs(n) == IF n < 0 THEN -n ELSE n
Sgn(n) == IF n < 0 THEN -1 ELSE IF n > 0 THEN 1 ELSE 0

\* A float of magnitude mag (units of 1 / Scale) and sign sg; inf on overflow.
Rounded(sg, mag) == IF mag > MaxFin THEN Inf(sg) ELSE PyFloat(sg * mag)

\* int -> float, as every mixed int/float operation does first.
ToFloat(v) ==
    IF v.k # "int" THEN v
    ELSE IF Abs(v.m) > MaxFin \div Scale THEN Raise("OverflowError")
    ELSE PyFloat(v.m * Scale)

\* x * y / Scale for magnitudes x, y <= MaxFin, or MaxFin + 1 when it exceeds
\* MaxFin; no intermediate product leaves the 32-bit range.
MulMag(x, y) ==
    LET xq == x \div Scale
        xr == x % Scale
        yq == y \div Scale
        yr == y % Scale
    IN IF xq > 0 /\ yq > (MaxFin \div Scale) \div xq + 1 THEN MaxFin + 1
       ELSE LET t == xq * yq * Scale + xq * yr + xr * yq + (xr * yr) \div Scale
            IN IF t > MaxFin THEN MaxFin + 1 ELSE t

\* float * float
FMul(a, b) ==
    IF a.k = "nan" \/ b.k = "nan" THEN NaN
    ELSE IF a.k = "inf" \/ b.k = "inf"
         THEN IF Sgn(a.m) * Sgn(b.m) = 0 THEN NaN ELSE Inf(Sgn(a.m) * Sgn(b.m))
    ELSE Rounded(Sgn(a.m) * Sgn(b.m), MulMag(Abs(a.m), Abs(b.m)))

\* x * Scale / y for magnitudes x <= MaxFin, y > 0, or MaxFin + 1 beyond MaxFin.
DivMag(x, y) ==
    LET q == x \div y
        r == x % y
    IN IF q > MaxFin \div Scale THEN MaxFin + 1
       ELSE IF r <= MaxFin \div Scale THEN q * Scale + (r * Scale) \div y
       ELSE q * Scale + r \div ((y + Scale - 1) \div Scale)

\* float / float
FDiv(a, b) ==
    IF b.k = "float" /\ b.m = 0 THEN Raise("ZeroDivisionError")
    ELSE IF a.k = "nan" \/ b.k = "nan" THEN NaN
    ELSE IF a.k = "inf" THEN IF b.k = "inf" THEN NaN ELSE Inf(a.m * Sgn(b.m))
    ELSE IF b.k = "inf" THEN PyFloat(0)
    ELSE Rounded(Sgn(a.m) * Sgn(b.m), DivMag(Abs(a.m), Abs(b.m)))

\* float + float
FAdd(a, b) ==
    IF a.k = "nan" \/ b.k = "nan" THEN NaN
    ELSE IF a.k = "inf" THEN IF b.k = "inf" /\ b.m # a.m THEN NaN ELSE a
    ELSE IF b.k = "inf" THEN b
    ELSE Rounded(Sgn(a.m + b.m), Abs(a.m + b.m))

FNeg(a) == IF a.k = "nan" THEN a ELSE [a EXCEPT !.m = -a.m]
FSub(a, b) == FAdd(a, FNeg(b))

\* x % y for floats: the result has the sign of y.
FMod(a, b) ==
    IF b.k = "float" /\ b.m = 0 THEN Raise("ZeroDivisionError")
    ELSE IF a.k # "float" \/ b.k = "nan" THEN NaN
    ELSE IF b.k = "inf" THEN IF Sgn(a.m) * b.m >= 0 THEN a ELSE b
    ELSE IF b.m > 0 THEN PyFloat(a.m % b.m)
    ELSE PyFloat(-((-a.m) % (-b.m)))

\* The operands of a float operation: the exception an operand is, or the
\* one its conversion from int raises, or else the two floats.
Operands(a, b) ==
    IF IsExc(a) THEN a
    ELSE IF IsExc(b) THEN b
    ELSE IF IsExc(ToFloat(a)) THEN ToFloat(a)
    ELSE IF IsExc(ToFloat(b)) THEN ToFloat(b)
    ELSE PyTuple(<<ToFloat(a), ToFloat(b)>>)

\* The binary operators of the language on int and float operands.
PyMul(left, right) ==
    CHOOSE r \in
        {IF a.k = "int" /\ b.k = "int" THEN PyInt(a.m * b.m)
         ELSE IF IsExc(Operands(a, b)) THEN Operands(a, b)
         ELSE FMul(ToFloat(a), ToFloat(b)) : a \in {left}, b \in {right}} : TRUE

PyTrueDiv(left, right) ==
    CHOOSE r \in
        {IF ~IsExc(a) /\ b.k = "int" /\ b.m = 0 THEN Raise("ZeroDivisionError")
         ELSE IF IsExc(Operands(a, b)) THEN Operands(a, b)
         ELSE FDiv(ToFloat(a), ToFloat(b)) : a \in {left}, b \in {right}} : TRUE

PyAdd(left, right) ==
    CHOOSE r \in
        {IF a.k = "int" /\ b.k = "int" THEN PyInt(a.m + b.m)
         ELSE IF IsExc(Operands(a, b)) THEN Operands(a, b)
         ELSE FAdd(ToFloat(a), ToFloat(b)) : a \in {left}, b \in {right}} : TRUE

PySub(left, right) ==
    CHOOSE r \in
        {IF a.k = "int" /\ b.k = "int" THEN PyInt(a.m - b.m)
         ELSE IF IsExc(Operands(a, b)) THEN Operands(a, b)
         ELSE FSub(ToFloat(a), ToFloat(b)) : a \in {left}, b \in {right}} : TRUE

PyMod(left, right) ==
    CHOOSE r \in
        {IF IsExc(Operands(a, b)) THEN Operands(a, b)
         ELSE FMod(ToFloat(a), ToFloat(b)) : a \in {left}, b \in {right}} : TRUE

\* abs(x)
PyAbs(x) ==
    CHOOSE r \in
        {IF IsExc(a) \/ a.k = "nan" THEN a ELSE [a EXCEPT !.m = Abs(a.m)] :
            a \in {x}} : TRUE

\* x != 0 for a number x
NonZero(v) == v.k \in {"nan", "inf"} \/ v.m # 0

\* int(x): truncation toward zero; NaN and the infinities have no integer.
PyIntOf(x) ==
    CHOOSE r \in
        {IF IsExc(v) \/ v.k = "int" THEN v
         ELSE IF v.k = "nan" THEN Raise("ValueError")
         ELSE IF v.k = "inf" THEN Raise("OverflowError")
         ELSE PyInt(Sgn(v.m) * (Abs(v.m) \div Scale)) : v \in {x}} : TRUE

------------------------------------------------------------------------------
(* The math module *)

\* r * r <= m * Scale, exactly (r * r = hi * Scale + lo)
SquareLeq(r, m) ==
    LET hi == MulMag(r, r)
        lo == ((r % Scale) * (r % Scale)) % Scale
    IN hi < m \/ (hi = m /\ lo = 0)

\* r * r * r <= m * Scale * Scale, exactly
CubeLeq(r, m) ==
    LET a == MulMag(r, r)
        a0 == ((r % Scale) * (r % Scale)) % Scale
        b == MulMag(a, r)
        b0 == ((a % Scale) * (r % Scale)) % Scale
        c == b0 * Scale + a0 * r
        hi == b + c \div (Scale * Scale)
    IN a <= MaxFin /\ (hi < m \/ (hi = m /\ c % (Scale * Scale) = 0))

\* The largest r in lo..hi whose square (cube) is at most m, in fixed point.
RECURSIVE RootSearch(_, _, _, _)
RootSearch(lo, hi, m, cube) ==
    CHOOSE r \in
        {IF l >= h THEN l
         ELSE CHOOSE q \in
                  {IF (IF cube THEN CubeLeq(mid, m) ELSE SquareLeq(mid, m))
                   THEN RootSearch(mid, h, m, cube)
                   ELSE RootSearch(l, mid - 1, m, cube) :
                      mid \in {(l + h + 1) \div 2}} : TRUE :
            l \in {lo}, h \in {hi}} : TRUE

RootMag(m, cube) == RootSearch(0, IF m > Scale THEN m ELSE Scale, m, cube)

\* math.sqrt(x)
MathSqrt(v) ==
    CHOOSE r \in
        {IF IsExc(x) \/ x.k = "nan" THEN x
         ELSE IF x.m < 0 THEN Raise("ValueError")
         ELSE IF x.k = "inf" THEN x
         ELSE PyFloat(RootMag(x.m, FALSE)) : x \in {ToFloat(v)}} : TRUE

\* math.pow(x, 1/3)
MathPowThird(v) ==
    CHOOSE r \in
        {IF IsExc(x) \/ x.k = "nan" THEN x
         ELSE IF x.k = "inf" THEN Inf(1)
         ELSE IF x.m < 0 THEN Raise("ValueError")
         ELSE PyFloat(RootMag(x.m, TRUE)) : x \in {ToFloat(v)}} : TRUE

\* pi, in units of 1 / Scale
HalfTurn == (3142 * Scale) \div 1000

\* sin t for 0 <= t <= pi (Bhaskara's rational approximation, to 1 / Scale)
SinArc(t) ==
    LET p == t * (HalfTurn - t)
        den == (5 * HalfTurn * HalfTurn - 4 * p) \div Scale
    IN (16 * p) \div den

SinMag(m) ==
    LET t == m % (2 * HalfTurn)
    IN IF t <= HalfTurn THEN SinArc(t) ELSE -SinArc(t - HalfTurn)

\* math.sin(x): a domain error at the infinities
MathSin(v) ==
    CHOOSE r \in
        {IF IsExc(x) \/ x.k = "nan" THEN x
         ELSE IF x.k = "inf" THEN Raise("ValueError")
         ELSE PyFloat(SinMag(x.m)) : x \in {ToFloat(v)}} : TRUE

\* math.cos(x)
MathCos(v) ==
    CHOOSE r \in
        {IF IsExc(x) \/ x.k = "nan" THEN x
         ELSE IF x.k = "inf" THEN Raise("ValueError")
         ELSE PyFloat(SinMag(x.m + HalfTurn \div 2)) : x \in {ToFloat(v)}} : TRUE

\* math.e
MathE == PyFloat((2718 * Scale) \div 1000)

RECURSIVE IntPow(_, _)
IntPow(b, n) == IF n = 0 THEN 1 ELSE b * IntPow(b, n - 1)

RECURSIVE FloatPow(_, _)
FloatPow(x, n) ==
    IF n = 0 THEN PyFloat(Scale)
    ELSE CHOOSE r \in {FMul(x, p) : p \in {FloatPow(x, n - 1)}} : TRUE

\* 1 / x and x * y for floats x, y
Reciprocal(x) == CHOOSE r \in {FDiv(PyFloat(Scale), p) : p \in {x}} : TRUE
Times(x, y) == CHOOSE r \in {FMul(p, q) : p \in {x}, q \in {y}} : TRUE

\* base ** exp.  The exponents the program meets are ints and floats; a float
\* exponent is whole or half-integral (10 ** 0.5 is the square root of 10).
PyPow(b, e) ==
    CHOOSE r \in
        {IF ~IsNumber(base) \/ ~IsNumber(exp) THEN Raise("TypeError")
         ELSE IF base.k = "int" /\ exp.k = "int" /\ exp.m >= 0
              THEN PyInt(IntPow(base.m, exp.m))
         ELSE IF exp.k = "int"
              THEN IF exp.m >= 0 THEN FloatPow(ToFloat(base), exp.m)
                   ELSE Reciprocal(FloatPow(ToFloat(base), -exp.m))
         ELSE IF exp.k = "float"
              THEN LET whole == FloatPow(ToFloat(base), Abs(exp.m) \div Scale)
                       part == IF Abs(exp.m) % Scale = 0 THEN PyFloat(Scale)
                               ELSE MathSqrt(base)
                   IN IF exp.m >= 0 THEN Times(whole, part)
                      ELSE Reciprocal(Times(whole, part))
         ELSE NaN : base \in {b}, exp \in {e}} : TRUE

------------------------------------------------------------------------------
(* float(x) *)

Digit(c) ==
    CASE c = "0" -> 0 [] c = "1" -> 1 [] c = "2" -> 2 [] c = "3" -> 3
      [] c = "4" -> 4 [] c = "5" -> 5 [] c = "6" -> 6 [] c = "7" -> 7
      [] c = "8" -> 8 [] c = "9" -> 9 [] OTHER -> -1

Lower(c) ==
    CASE c = "N" -> "n" [] c = "A" -> "a" [] c = "I" -> "i" [] c = "F" -> "f"
      [] c = "T" -> "t" [] c = "Y" -> "y" [] OTHER -> c

RECURSIVE Strip(_)
Strip(chars) ==
    CHOOSE r \in
        {IF s = <<>> THEN s
         ELSE IF Head(s) = " " THEN Strip(Tail(s))
         ELSE IF s[Len(s)] = " " THEN Strip(SubSeq(s, 1, Len(s) - 1))
         ELSE s : s \in {chars}} : TRUE

NoDecimal == [ok |-> FALSE, i |-> 0, dot |-> 0, digits |-> 0, ip |-> 0, fp |-> 0]

\* The decimal digits of s from position st.i on: st.ok with st.ip the integer
\* part (capped just above the float range) and st.fp the fraction in
\* 1 / Scale; st.dot is the position of the point (0: none yet) and
\* st.digits the digits read.
RECURSIVE ParseDecimal(_, _)
ParseDecimal(s, state) ==
    CHOOSE r \in
        {IF st.i > Len(s) THEN [st EXCEPT !.ok = st.digits > 0]
         ELSE IF s[st.i] = "." THEN
             IF st.dot > 0 THEN NoDecimal
             ELSE ParseDecimal(s, [st EXCEPT !.i = st.i + 1, !.dot = st.i])
         ELSE IF Digit(s[st.i]) < 0 THEN NoDecimal
         ELSE IF st.dot = 0 THEN
             ParseDecimal(s, [st EXCEPT !.i = st.i + 1, !.digits = st.digits + 1,
                                 !.ip = IF 10 * st.ip + Digit(s[st.i]) > MaxFin \div Scale
                                        THEN MaxFin \div Scale + 1
                                        ELSE 10 * st.ip + Digit(s[st.i])])
         ELSE ParseDecimal(s, [st EXCEPT !.i = st.i + 1, !.digits = st.digits + 1,
                                  !.fp = st.fp + (Digit(s[st.i]) * Scale)
                                                 \div IntPow(10, st.i - st.dot)]) :
            st \in {state}} : TRUE

\* The float a sign and the decimal digits d spell.
DecimalValue(sign, decimal) ==
    CHOOSE r \in
        {IF ~d.ok THEN Raise("ValueError")
         ELSE IF d.ip > MaxFin \div Scale THEN Inf(sign)
         ELSE Rounded(sign, d.ip * Scale + d.fp) : d \in {decimal}} : TRUE

\* float(s) for a str s: ValueError unless s spells a number.  (Exponents and
\* underscores are not read: no string the callers pass here has them.)
ParseFloat(chars) ==
    CHOOSE r \in
        {LET signed == t # <<>> /\ Head(t) \in {"+", "-"}
             sign == IF signed /\ Head(t) = "-" THEN -1 ELSE 1
             body == IF signed THEN Tail(t) ELSE t
             word == [i \in 1..Len(body) |-> Lower(body[i])]
         IN IF word = <<"n", "a", "n">> THEN NaN
            ELSE IF word = <<"i", "n", "f">>
                    \/ word = <<"i", "n", "f", "i", "n", "i", "t", "y">>
                 THEN Inf(sign)
            ELSE DecimalValue(sign,
                     ParseDecimal(body, [ok |-> TRUE, i |-> 1, dot |-> 0,
                                         digits |-> 0, ip |-> 0, fp |-> 0])) :
            t \in {Strip(chars)}} : TRUE

\* float(x)
PyFloatOf(v) ==
    IF IsNumber(v) THEN ToFloat(v)
    ELSE IF v.k = "str" THEN ParseFloat(v.s)
    ELSE Raise("TypeError")

------------------------------------------------------------------------------
(* f"{x:.12f}" *)

DigitChar(d) == <<"0", "1", "2", "3", "4", "5", "6", "7", "8", "9">>[d + 1]

RECURSIVE IntDigits(_)
IntDigits(n) ==
    IF n < 10 THEN <<DigitChar(n)>> ELSE Append(IntDigits(n \div 10), DigitChar(n % 10))

\* The first n decimals of r / Scale (r < Scale).
RECURSIVE FracDigits(_, _)
FracDigits(rest, n) ==
    IF n = 0 THEN <<>>
    ELSE CHOOSE q \in
             {<<(r * 10) \div Scale>> \o FracDigits((r * 10) % Scale, n - 1) :
                 r \in {rest}} : TRUE

\* What is left of r / Scale after its first n decimals.
RECURSIVE FracRest(_, _)
FracRest(rest, n) ==
    IF n = 0 THEN rest
    ELSE CHOOSE q \in {FracRest((r * 10) % Scale, n - 1) : r \in {rest}} : TRUE

\* digits + 1 in the last place: [d |-> the digits, carry |-> 0 or 1]
RECURSIVE Increment(_)
Increment(digits) ==
    IF digits = <<>> THEN [d |-> <<>>, carry |-> 1]
    ELSE IF digits[Len(digits)] < 9
         THEN [d |-> [digits EXCEPT ![Len(digits)] = @ + 1], carry |-> 0]
    ELSE CHOOSE q \in
             {[d |-> Append(up.d, 0), carry |-> up.carry] :
                 up \in {Increment(SubSeq(digits, 1, Len(digits) - 1))}} : TRUE

\* The text of the finite float v to n decimals, raw being its first n
\* decimals before rounding.
FixedText(v, n, raw) ==
    CHOOSE q \in
        {(IF v.m < 0 THEN <<"-">> ELSE <<>>)
         \o IntDigits(Abs(v.m) \div Scale + frac.carry) \o <<".">>
         \o [i \in 1..n |-> DigitChar(frac.d[i])] :
            frac \in {IF 2 * FracRest(Abs(v.m) % Scale, n) >= Scale
                      THEN Increment(raw) ELSE [d |-> raw, carry |-> 0]}} : TRUE

\* f"{x:.nf}"
FormatFixed(x, n) ==
    CHOOSE q \in
        {IF v.k = "nan" THEN <<"n", "a", "n">>
         ELSE IF v.k = "inf"
              THEN (IF v.m < 0 THEN <<"-">> ELSE <<>>) \o <<"i", "n", "f">>
         ELSE FixedText(v, n, FracDigits(Abs(v.m) % Scale, n)) :
            v \in {ToFloat(x)}} : TRUE

------------------------------------------------------------------------------
(* class AxiomLinearEngine *)

\* 10 ** precision
precision_multiplier(precision) == PyPow(PyInt(10), precision)

\* The constants __init__ computes, whatever the precision.
PHI == PyTrueDiv(PyAdd(PyInt(1), MathSqrt(PyInt(5))), PyInt(2))
DELTA_ZERO == PyPow(PHI, PyInt(-12))
O7_TARGET == PyFloat(7 * Scale)
O8_CIRCLE == PyFloat(8 * Scale)
O11_TRIANGLE == PyFloat(11 * Scale)
OP_10_SQUARE == PyPow(PyInt(10), PyInt(2))
OP_11_SQUARE == PyPow(PyInt(11), PyInt(2))
O_PERS == PyTrueDiv(PyMul(PHI, MathE), MathSqrt(O7_TARGET))
O333_VERDICT == PyFloat(333 * Scale)

\* self after __init__, when 10 ** precision did not raise
AxiomLinearEngine(precision, session_id) ==
    [precision |-> precision,
     precision_multiplier |-> precision_multiplier(precision),
     PHI |-> PHI,
     DELTA_ZERO |-> DELTA_ZERO,
     O7_TARGET |-> O7_TARGET,
     O8_CIRCLE |-> O8_CIRCLE,
     O11_TRIANGLE |-> O11_TRIANGLE,
     OP_10_SQUARE |-> OP_10_SQUARE,
     OP_11_SQUARE |-> OP_11_SQUARE,
     O_PERS |-> O_PERS,
     O333_VERDICT |-> O333_VERDICT,
     status |-> "ACTIVE",
     session_id |-> session_id]

\* Stage 1
quantum_vectorization(self, input_flux) == PyMul(input_flux, self.DELTA_ZERO)

\* Stage 2: (symmetric, asymmetric)
dual_matrix_filter(self, vector) ==
    CHOOSE r \in
        {IF IsExc(symmetric) THEN symmetric
         ELSE IF IsExc(asymmetric) THEN asymmetric
         ELSE PyTuple(<<symmetric, asymmetric>>) :
            symmetric \in {PyMul(MathSqrt(PyAbs(PyMul(vector, self.PHI))),
                                 PyTrueDiv(self.OP_10_SQUARE, PyInt(100)))},
            asymmetric \in {PyMul(MathPowThird(PyAbs(vector)),
                                  PyTrueDiv(self.OP_11_SQUARE, PyInt(121)))}} : TRUE

\* (triangle, circle)
detect_geometry(self, vector) ==
    CHOOSE r \in
        {IF IsExc(triangle) THEN triangle
         ELSE IF IsExc(circle) THEN circle
         ELSE PyTuple(<<triangle, circle>>) :
            triangle \in {MathSin(PyTrueDiv(vector, self.O11_TRIANGLE))},
            circle \in {MathCos(PyTrueDiv(vector, self.O8_CIRCLE))}} : TRUE

\* corrected - (corrected % O7_TARGET) + DELTA_ZERO
Aligned(self, value) ==
    CHOOSE r \in
        {PyAdd(PySub(corrected, PyMod(corrected, self.O7_TARGET)), self.DELTA_ZERO) :
            corrected \in {value}} : TRUE

\* Stage 3
persistence_operator(self, vector) ==
    CHOOSE r \in
        {IF IsExc(geometry) THEN geometry
         ELSE Aligned(self,
                  PySub(vector,
                        PyTrueDiv(PyAdd(PyMul(self.O_PERS,
                                              PyAdd(geometry.s[1], geometry.s[2])),
                                        self.DELTA_ZERO),
                                  self.precision_multiplier))) :
            geometry \in {detect_geometry(self, vector)}} : TRUE

\* INF = float('inf')
INF == PyFloatOf(PyStr(<<"i", "n", "f">>))

\* One filter of stage 4: step / INF if step != 0 else 0
Filter(value) ==
    CHOOSE r \in
        {IF IsExc(step) THEN step
         ELSE IF NonZero(step) THEN PyTrueDiv(step, INF) ELSE PyInt(0) :
            step \in {value}} : TRUE

\* The try block of stage 4: what the four filters and the final int() come
\* to, an exception if one of them raised.
CollapseSteps(fixed) ==
    CHOOSE r \in
        {IF IsExc(step4) THEN step4
         ELSE IF IsNumber(step4) THEN PyIntOf(step4) ELSE PyInt(0) :
            step4 \in {Filter(Filter(Filter(Filter(fixed))))}} : TRUE

\* Stage 4 without the absorption: the fixed-point value is returned as it is.
infinite_flux_loss_Unabsorbed(self, value) ==
    PyIntOf(PyMul(value, self.precision_multiplier))

\* Stage 4.  int(value * precision_multiplier) stands before the try: what it
\* raises leaves the method; what is raised inside the try is answered with 0.
infinite_flux_loss(self, value) ==
    CHOOSE r \in
        {IF IsExc(fixed) THEN fixed
         ELSE CHOOSE q \in
                  {IF IsExc(result) THEN PyInt(0) ELSE result :
                      result \in {CollapseSteps(fixed)}} : TRUE :
            fixed \in {PyIntOf(PyMul(value, self.precision_multiplier))}} : TRUE

DecoherenceHash == <<"0", ".", "0", "0", "0", "0", "0", "0", "0", "0", "0", "0", "0", "0">>

\* Stage 5 with the residual written into the hash of the DECOHERENCE verdict.
dual_verdict_Residual(self, final_value) ==
    [status |-> IF NonZero(final_value) THEN "DECOHERENCE" ELSE "ABSOLUTE NATURALNESS",
     verdict_code |-> "O333",
     integrity_hash |-> FormatFixed(final_value, 12),
     zero_point |-> ~NonZero(final_value),
     message |-> IF NonZero(final_value)
                 THEN "Warning: Residual error detected. Verify input flux."
                 ELSE "Unit Zero confirmed. System in Absolute Coherence."]

\* Stage 5
dual_verdict(self, final_value) ==
    IF ~NonZero(final_value) THEN
        CHOOSE r \in
            {[status |-> "ABSOLUTE NATURALNESS",
              verdict_code |-> "O333",
              integrity_hash |-> FormatFixed(verdict, 12),
              zero_point |-> TRUE,
              message |-> "Unit Zero confirmed. System in Absolute Coherence."] :
                verdict \in
                    {PyTrueDiv(PyAdd(PyMod(PyMul(self.O7_TARGET, PyInt(3)),
                                           self.O333_VERDICT),
                                     PyMod(PyTrueDiv(self.O7_TARGET, PyInt(3)),
                                           self.O333_VERDICT)),
                               PyInt(2))}} : TRUE
    ELSE [status |-> "DECOHERENCE",
          verdict_code |-> "O333",
          integrity_hash |-> DecoherenceHash,
          zero_point |-> FALSE,
          message |-> "Warning: Residual error detected. Verify input flux."]

------------------------------------------------------------------------------
(* run_full_alignment, statement by statement *)

InvalidInput == [error |-> "Invalid input type"]

\* Type validation that goes on with 0.0 when float(input_data) raises.
TypeValidation_Default(input_data) ==
    IF IsNumber(input_data) THEN input_data
    ELSE CHOOSE r \in
             {IF IsExc(f) THEN PyFloat(0) ELSE f : f \in {PyFloatOf(input_data)}} : TRUE

\* Type validation: the value input_data is bound to afterwards, or the
\* dictionary returned when float(input_data) raises.
TypeValidation(input_data) ==
    IF IsNumber(input_data) THEN input_data
    ELSE CHOOSE r \in
             {IF IsExc(f) THEN InvalidInput ELSE f : f \in {PyFloatOf(input_data)}} : TRUE

\* The dictionary returned after stage 5.
RunResult(self, input_data, v1, sym, asym, v_corrected, final_nucleus, verdict) ==
    [session_id |-> self.session_id,
     input |-> input_data,
     stages |-> [quantum_vector |-> v1,
                 symmetric_path |-> sym,
                 asymmetric_path |-> asym,
                 persistence_corrected |-> v_corrected],
     nucleus |-> final_nucleus,
     zero_unit |-> ~NonZero(final_nucleus),
     verdict |-> verdict]

------------------------------------------------------------------------------
(* Bounds and the values the callers pass *)

\* Method calls made on the engines.
MaxOps == 3
\* Engines constructed after the first one.
MaxEngines == 1
\* dual_verdict is called directly with the integers -MaxNucleus..MaxNucleus.
MaxNucleus == 1

SessionIds == {"20260101_000000", "20260101_000001"}

\* precision: ints (zero, positive, one whose power of ten takes the aligned
\* value out of the float range), a float, a str.
Precisions ==
    {PyInt(0), PyInt(1), PyInt(5), PyFloat(2 * Scale + Scale \div 2), PyStr(<<"8">>)}

NumericString == PyStr(<<"1", "2", "3", "4", "5", ".", "6", "7", "8", "9">>)
NotANumber == PyStr(<<"n", "o", "t", " ", "a", " ", "n", "u", "m", "b", "e", "r">>)

Inputs ==
    {PyInt(12), PyInt(MaxFin \div Scale + 1),
     PyFloat(Scale \div 2), PyFloat(-3 * Scale), PyFloat(MaxFin), NaN, Inf(1),
     NumericString, NotANumber, PyList, PyNone}

CollapseValues == {PyFloat(0), PyFloat(Scale \div 2), PyFloat(MaxFin), NaN, Inf(-1)}

------------------------------------------------------------------------------
(* State *)

VARIABLES
    engine,   \* the engine object (self), or NoEngine
    pc,       \* "idle", or the statement of run_full_alignment to run next
    frame,    \* the local variables of the running run_full_alignment
    op,       \* the operation called last
    arg,      \* the argument the caller passed to it
    status,   \* how it ended: "returned" or "raised" ("running" until then)
    ret,      \* the value returned, or the exception raised
    calls,    \* the stage methods the current run has called, with their arguments
    ops,      \* method calls made so far
    built,    \* engines constructed after the first one
    ref       \* the outcome of the first run_full_alignment, kept for comparison

vars == <<engine, pc, frame, op, arg, status, ret, calls, ops, built, ref>>

NoEngine == [none |-> TRUE]
NoRef == [none |-> TRUE]

NoFrame ==
    [input_data |-> PyNone, v1 |-> PyNone, sym |-> PyNone, asym |-> PyNone,
     v_corrected |-> PyNone, final_nucleus |-> PyNone]

IsRunResult(r) == "nucleus" \in DOMAIN r
IsInputError(r) == "error" \in DOMAIN r

\* What a run shows of itself apart from the session identifier.
Observable(st, r) ==
    [status |-> st,
     value |-> IF st = "returned" /\ IsRunResult(r)
               THEN [f \in DOMAIN r \ {"session_id"} |-> r[f]]
               ELSE r]

\* The end of a run_full_alignment call: the first one is remembered.
Remember(st, r) ==
    ref' = IF ref = NoRef
           THEN [precision |-> engine.precision, arg |-> arg,
                 session_id |-> engine.session_id, outcome |-> Observable(st, r)]
           ELSE ref

\* An exception leaves run_full_alignment.
Propagate(exc) ==
    /\ pc' = "idle"
    /\ frame' = NoFrame
    /\ status' = "raised"
    /\ ret' = exc
    /\ Remember("raised", exc)
    /\ UNCHANGED <<engine, op, arg, ops, built>>

Called(fn, a) == calls' = Append(calls, [fn |-> fn, arg |-> a])

------------------------------------------------------------------------------
(* Operations *)

\* engine = AxiomLinearEngine(precision): 10 ** precision raising leaves the
\* caller without a new engine.
Construct(precision, session_id) ==
    /\ pc = "idle"
    /\ built < MaxEngines
    /\ built' = built + 1
    /\ op' = "__init__"
    /\ arg' = precision
    /\ calls' = <<>>
    /\ \E multiplier \in {precision_multiplier(precision)} :
          IF IsExc(multiplier)
          THEN /\ status' = "raised"
               /\ ret' = multiplier
               /\ UNCHANGED engine
          ELSE /\ status' = "returned"
               /\ ret' = PyNone
               /\ engine' = AxiomLinearEngine(precision, session_id)
    /\ UNCHANGED <<pc, frame, ops, ref>>

\* engine.run_full_alignment(input_data), up to stage 1
Run(input_data) ==
    /\ pc = "idle"
    /\ engine # NoEngine
    /\ ops < MaxOps
    /\ ops' = ops + 1
    /\ op' = "run_full_alignment"
    /\ arg' = input_data
    /\ calls' = <<>>
    /\ \E v \in {TypeValidation(input_data)} :
          IF IsInputError(v)
          THEN /\ status' = "returned"
               /\ ret' = v
               /\ ref' = IF ref = NoRef
                         THEN [precision |-> engine.precision, arg |-> input_data,
                               session_id |-> engine.session_id,
                               outcome |-> Observable("returned", v)]
                         ELSE ref
               /\ UNCHANGED <<pc, frame>>
          ELSE /\ status' = "running"
               /\ ret' = PyNone
               /\ pc' = "stage1"
               /\ frame' = [NoFrame EXCEPT !.input_data = v]
               /\ UNCHANGED ref
    /\ UNCHANGED <<engine, built>>

\* Stage 1 keeping its vector on the engine as the next DELTA_ZERO.
Stage1_Stateful ==
    /\ pc = "stage1"
    /\ Called("quantum_vectorization", frame.input_data)
    /\ \E v1 \in {quantum_vectorization(engine, frame.input_data)} :
          IF IsExc(v1) THEN Propagate(v1)
          ELSE /\ frame' = [frame EXCEPT !.v1 = v1]
               /\ pc' = "stage2"
               /\ engine' = [engine EXCEPT !.DELTA_ZERO = v1]
               /\ UNCHANGED <<op, arg, status, ret, ops, built, ref>>

\* v1 = self.quantum_vectorization(input_data)
Stage1 ==
    /\ pc = "stage1"
    /\ Called("quantum_vectorization", frame.input_data)
    /\ \E v1 \in {quantum_vectorization(engine, frame.input_data)} :
          IF IsExc(v1) THEN Propagate(v1)
          ELSE /\ frame' = [frame EXCEPT !.v1 = v1]
               /\ pc' = "stage2"
               /\ UNCHANGED <<engine, op, arg, status, ret, ops, built, ref>>

\* sym, asym = self.dual_matrix_filter(v1)
Stage2 ==
    /\ pc = "stage2"
    /\ Called("dual_matrix_filter", frame.v1)
    /\ \E r \in {dual_matrix_filter(engine, frame.v1)} :
          IF IsExc(r) THEN Propagate(r)
          ELSE /\ frame' = [frame EXCEPT !.sym = r.s[1], !.asym = r.s[2]]
               /\ pc' = "stage3"
               /\ UNCHANGED <<engine, op, arg, status, ret, ops, built, ref>>

\* v_corrected = self.persistence_operator((sym + asym) / 2)
Stage3 ==
    /\ pc = "stage3"
    /\ \E mean \in {PyTrueDiv(PyAdd(frame.sym, frame.asym), PyInt(2))} :
          IF IsExc(mean) THEN Propagate(mean) /\ UNCHANGED calls
          ELSE /\ Called("persistence_operator", mean)
               /\ \E v_corrected \in {persistence_operator(engine, mean)} :
                     IF IsExc(v_corrected) THEN Propagate(v_corrected)
                     ELSE /\ frame' = [frame EXCEPT !.v_corrected = v_corrected]
                          /\ pc' = "stage4"
                          /\ UNCHANGED <<engine, op, arg, status, ret, ops, built, ref>>

\* final_nucleus = self.infinite_flux_loss(v_corrected)
Stage4 ==
    /\ pc = "stage4"
    /\ Called("infinite_flux_loss", frame.v_corrected)
    /\ \E final_nucleus \in {infinite_flux_loss(engine, frame.v_corrected)} :
          IF IsExc(final_nucleus) THEN Propagate(final_nucleus)
          ELSE /\ frame' = [frame EXCEPT !.final_nucleus = final_nucleus]
               /\ pc' = "stage5"
               /\ UNCHANGED <<engine, op, arg, status, ret, ops, built, ref>>

\* verdict = self.dual_verdict(final_nucleus), and the return statement
Stage5 ==
    /\ pc = "stage5"
    /\ Called("dual_verdict", frame.final_nucleus)
    /\ \E result \in {RunResult(engine, frame.input_data, frame.v1, frame.sym,
                                frame.asym, frame.v_corrected, frame.final_nucleus,
                                dual_verdict(engine, frame.final_nucleus))} :
          /\ status' = "returned"
          /\ ret' = result
          /\ Remember("returned", result)
    /\ pc' = "idle"
    /\ frame' = NoFrame
    /\ UNCHANGED <<engine, op, arg, ops, built>>

\* engine.infinite_flux_loss(value), called on its own
Collapse(value) ==
    /\ pc = "idle"
    /\ engine # NoEngine
    /\ ops < MaxOps
    /\ ops' = ops + 1
    /\ op' = "infinite_flux_loss"
    /\ arg' = value
    /\ calls' = <<>>
    /\ \E r \in {infinite_flux_loss(engine, value)} :
          /\ status' = IF IsExc(r) THEN "raised" ELSE "returned"
          /\ ret' = r
    /\ UNCHANGED <<engine, pc, frame, built, ref>>

\* engine.dual_verdict(final_value), called on its own
Verdict(final_value) ==
    /\ pc = "idle"
    /\ engine # NoEngine
    /\ ops < MaxOps
    /\ ops' = ops + 1
    /\ op' = "dual_verdict"
    /\ arg' = final_value
    /\ calls' = <<>>
    /\ status' = "returned"
    /\ ret' = dual_verdict(engine, final_value)
    /\ UNCHANGED <<engine, pc, frame, built, ref>>

\* The state after the program's first AxiomLinearEngine(precision).
Init ==
    /\ \E precision \in Precisions, session_id \in SessionIds :
          /\ arg = precision
          /\ \E multiplier \in {precision_multiplier(precision)} :
                IF IsExc(multiplier)
                THEN /\ engine = NoEngine
                     /\ status = "raised"
                     /\ ret = multiplier
                ELSE /\ engine = AxiomLinearEngine(precision, session_id)
                     /\ status = "returned"
                     /\ ret = PyNone
    /\ pc = "idle"
    /\ frame = NoFrame
    /\ op = "__init__"
    /\ calls = <<>>
    /\ ops = 0
    /\ built = 0
    /\ ref = NoRef

Next ==
    \/ \E precision \in Precisions, session_id \in SessionIds :
          Construct(precision, session_id)
    \/ \E input_data \in Inputs : Run(input_data)
    \/ Stage1
    \/ Stage2
    \/ Stage3
    \/ Stage4
    \/ Stage5
    \/ \E value \in CollapseValues : Collapse(value)
    \/ \E final_value \in (-MaxNucleus)..MaxNucleus : Verdict(PyInt(final_value))

Spec == Init /\ [][Next]_vars


------------------------------------------------------------------------------
(* Properties *)

\* A run_full_alignment call has ended (returned or raised).
RunEnded == op = "run_full_alignment" /\ pc = "idle"

\* A run_full_alignment call has returned the dictionary of a full run.
RunReturned == RunEnded /\ status = "returned" /\ IsRunResult(ret)

\* The inputs float() does not accept.
NonCoercible == {NotANumber, PyList, PyNone}

\* A positive integer precision.
ValidPrecision(precision) == precision.k = "int" /\ precision.m > 0

\* A finite number (int or float, neither NaN nor an infinity).
Finite(v) == v.k \in {"int", "float"}

\* f"{((7 * 3) % 333 + (7 / 3) % 333) / 2:.12f}"
ZeroHash ==
    FormatFixed(PyTrueDiv(PyAdd(PyMod(PyMul(PyInt(7), PyInt(3)), PyInt(333)),
                                PyMod(PyTrueDiv(PyInt(7), PyInt(3)), PyInt(333))),
                          PyInt(2)),
                12)

\* The stage methods a full run calls, in order.
StageOrder ==
    <<"quantum_vectorization", "dual_matrix_filter", "persistence_operator",
      "infinite_flux_loss", "dual_verdict">>

\* C1: with a positive integer precision, run_full_alignment on a finite
\* number returns a result with nucleus 0 and zero_unit true, and
\* infinite_flux_loss returns 0 for every finite value.
C1_ZeroCollapseTotality ==
    /\ (RunEnded /\ ValidPrecision(engine.precision) /\ Finite(arg))
          => /\ status = "returned"
             /\ IsRunResult(ret)
             /\ ret.nucleus = PyInt(0)
             /\ ret.zero_unit
    /\ (op = "infinite_flux_loss" /\ ValidPrecision(engine.precision) /\ Finite(arg))
          => (status = "returned" /\ ret = PyInt(0))

\* C2: a run_full_alignment call never raises: it returns the error
\* dictionary when the input cannot be coerced, and a full result for every
\* other input (NaN and the infinities included).
C2_NoExceptionEscapes ==
    RunEnded =>
        /\ status = "returned"
        /\ IF arg \in NonCoercible THEN IsInputError(ret) ELSE IsRunResult(ret)

\* C3: infinite_flux_loss never raises: whatever goes wrong in any of its
\* steps, the fixed-point truncation included, it returns 0.
C3_CollapseFailsClosed ==
    op = "infinite_flux_loss" => (status = "returned" /\ ret = PyInt(0))

\* C4: an engine exists only with a positive integer precision, and
\* constructing one with any other precision raises ConfigurationError.
C4_PrecisionValidated ==
    /\ engine # NoEngine => ValidPrecision(engine.precision)
    /\ (op = "__init__" /\ ~ValidPrecision(arg))
          => (status = "raised" /\ ret.k = "ConfigurationError")

\* C5: when the input is neither a number nor convertible to float,
\* run_full_alignment returns exactly {"error": "Invalid input type"}, no stage
\* method is called, and the dictionary has no other key.
C5_InvalidInputRejected ==
    (op = "run_full_alignment" /\ arg \in NonCoercible) =>
        /\ pc = "idle"
        /\ status = "returned"
        /\ ret = [error |-> "Invalid input type"]
        /\ DOMAIN ret = {"error"}
        /\ calls = <<>>

\* A list was passed and the call is over.
C5_Witness ==
    /\ RunEnded
    /\ arg = PyList
    /\ ops = 2
    /\ ret = [error |-> "Invalid input type"]

\* C6: every full result with zero_unit true carries the one 12-decimal
\* integrity_hash of ((7 * 3) % 333 + (7 / 3) % 333) / 2, whatever the input
\* and the precision; dual_verdict returns that hash for 0 and
\* "0.000000000000" for every other integer, and always returns.
C6_ConstantVerdictHash ==
    /\ (RunReturned /\ ret.zero_unit) => ret.verdict.integrity_hash = ZeroHash
    /\ op = "dual_verdict" =>
          /\ status = "returned"
          /\ ret.integrity_hash =
                IF arg = PyInt(0) THEN ZeroHash
                ELSE <<"0", ".", "0", "0", "0", "0", "0", "0", "0", "0", "0", "0",
                       "0", "0">>
    /\ Len(ZeroHash) = 15
    /\ ZeroHash[3] = "."

\* A full run of the numeric string on an engine of precision 5 has returned
\* with zero_unit true.
C6_Witness ==
    /\ RunReturned
    /\ ret.zero_unit
    /\ arg = NumericString
    /\ engine.precision = PyInt(5)
    /\ ret.verdict.integrity_hash = ZeroHash

\* C7: for a fixed precision, a run on the same input ends as the first such
\* run did (same stage values, nucleus and verdict, or the same exception),
\* whatever was called in between and whatever the session identifier.
C7_Deterministic ==
    (RunEnded /\ ref # NoRef /\ ref.precision = engine.precision /\ ref.arg = arg)
        => Observable(status, ret) = ref.outcome

\* A third call, on another engine of the same precision with another session
\* identifier, has returned a full result for the input of the first run.
C7_Witness ==
    /\ RunReturned
    /\ ops = 3
    /\ ref # NoRef
    /\ ref.precision = engine.precision
    /\ ref.arg = arg
    /\ ref.session_id # engine.session_id
    /\ ret.session_id = engine.session_id

\* C8: the input field of every full result is the value the caller passed,
\* the string itself when a numeric string was passed.
C8_OriginalInputRecorded ==
    RunReturned => ret.input = arg

\* C9: every run on a coercible input calls the five stage methods once each,
\* in order, each on the output of the one before: the mean of the two paths
\* to the correction, the aligned value to the collapse, the collapsed integer
\* to the verdict.
C9_FiveStagesInOrder ==
    (RunEnded /\ arg \notin NonCoercible) =>
        /\ Len(calls) = 5
        /\ \A i \in 1..5 : calls[i].fn = StageOrder[i]
        /\ IsRunResult(ret)
        /\ calls[2].arg = ret.stages.quantum_vector
        /\ calls[3].arg = PyTrueDiv(PyAdd(ret.stages.symmetric_path,
                                          ret.stages.asymmetric_path), PyInt(2))
        /\ calls[4].arg = ret.stages.persistence_corrected
        /\ calls[5].arg = ret.nucleus

\* C10: every full result has nucleus 0, zero_unit true, zero_point true and
\* status "ABSOLUTE NATURALNESS"; infinite_flux_loss returns 0 when it
\* returns; a DECOHERENCE verdict comes only from dual_verdict called
\* directly with a nonzero value.
C10_DecoherenceUnreachable ==
    /\ RunReturned =>
          /\ ret.nucleus = PyInt(0)
          /\ ret.zero_unit
          /\ ret.verdict.zero_point
          /\ ret.verdict.status = "ABSOLUTE NATURALNESS"
    /\ (op = "infinite_flux_loss" /\ status = "returned") => ret = PyInt(0)
    /\ (pc = "stage5" => frame.final_nucleus = PyInt(0))
    /\ (op = "dual_verdict" /\ ret.status = "DECOHERENCE") => arg # PyInt(0)

\* A run whose aligned value has a nonzero fixed-point truncation has
\* returned a full result.
C10_Witness ==
    /\ RunReturned
    /\ PyIntOf(PyMul(ret.stages.persistence_corrected, engine.precision_multiplier))
          \notin {PyInt(0), Raise("OverflowError"), Raise("ValueError")}
    /\ ret.nucleus = PyInt(0)

====
